---- MODULE Spec2Model ----
(***************************************************************************)
(* Model of the elan-lang syntax crate: the Lexer (syntax/src/lexer.rs)    *)
(* and the atom Parser (syntax/src/parser.rs).                             *)
(*                                                                         *)
(* A char is its Unicode code point, a str is the sequence of its UTF-8    *)
(* bytes, a String/Chars iterator is a sequence of code points.  A usize   *)
(* position is a natural number; a u64 value is four 16-bit limbs, least   *)
(* significant first, so that overflow of the 64-bit range is visible.     *)
(***************************************************************************)
EXTENDS Integers, Sequences, FiniteSets, TLC

\* ------------------------------------------------------------------------
\* Bounds of the model
\* ------------------------------------------------------------------------

\* Longest source text over the general alphabet.
MaxLen == 3

\* Longest source text over the float alphabet (digit . e - +).
MaxFloatLen == 5

\* Longest source text over the radix-prefix alphabet.
MaxRadixLen == 4

\* Longest run of one repeated digit in a long integer literal.
MaxRun == 64

\* How many further next_token calls are made after the first None.
MaxNone == 1

\* How many parse_expr_atom calls are made on one Parser.
MaxParseCalls == 2

\* Longest token sequence a Parser is constructed from directly.
MaxTokens == 3

\* ------------------------------------------------------------------------
\* Characters and UTF-8
\* ------------------------------------------------------------------------

\* The printable ASCII characters, in code order starting at U+0020 (three of
\* them, which the lexer never names, by their names).
Ascii ==
    << " ", "!", "QUOTE", "#", "$", "%", "&", "'", "(", ")", "*", "+", ",", "-",
       ".", "/", "0", "1", "2", "3", "4", "5", "6", "7", "8", "9", ":", ";",
       "<", "=", ">", "?", "@", "A", "B", "C", "D", "E", "F", "G", "H", "I",
       "J", "K", "L", "M", "N", "O", "P", "Q", "R", "S", "T", "U", "V", "W",
       "X", "Y", "Z", "[", "BACKSLASH", "]", "^", "_", "GRAVE", "a", "b", "c", "d", "e",
       "f", "g", "h", "i", "j", "k", "l", "m", "n", "o", "p", "q", "r", "s",
       "t", "u", "v", "w", "x", "y", "z", "{", "|", "}", "~" >>

\* Code point of a printable ASCII character given as a one-character string.
Ord == [c \in {Ascii[i] : i \in 1..Len(Ascii)} |->
           31 + (CHOOSE i \in 1..Len(Ascii) : Ascii[i] = c)]

\* A char literal of the source, 'c'.
Ch(c) == Ord[c]

\* A char range of the source, 'lo'..='hi'.
ChRange(lo, hi) == Ord[lo] .. Ord[hi]

\* A str literal of the source as chars: Str(<<"0", "x">>) is "0x".
Str(cs) == [i \in 1..Len(cs) |-> Ord[cs[i]]]

\* U+00E9 LATIN SMALL LETTER E WITH ACUTE: two bytes, not whitespace.
EAcute == 128 + 105

\* U+2003 EM SPACE: three bytes, White_Space.
EmSpace == 8192 + 3

\* char::len_utf8
len_utf8(ch) ==
    IF ch < 128 THEN 1
    ELSE IF ch < 2048 THEN 2
    ELSE IF ch < 65536 THEN 3
    ELSE 4

\* The UTF-8 encoding of one char (char::encode_utf8), as a sequence of bytes.
encode_utf8(ch) ==
    IF ch < 128 THEN << ch >>
    ELSE IF ch < 2048 THEN << 192 + (ch \div 64), 128 + (ch % 64) >>
    ELSE IF ch < 65536 THEN
        << 224 + (ch \div 4096), 128 + ((ch \div 64) % 64), 128 + (ch % 64) >>
    ELSE
        << 240 + (ch \div 262144), 128 + ((ch \div 4096) % 64),
           128 + ((ch \div 64) % 64), 128 + (ch % 64) >>

RECURSIVE Utf8(_)
\* The bytes of a str whose chars are cs (what &str indexes into).
Utf8(cs) == IF cs = << >> THEN << >> ELSE encode_utf8(Head(cs)) \o Utf8(Tail(cs))

\* char::is_whitespace: the code points with the White_Space property.
is_whitespace ==
    (9..13) \cup {32, 133, 160, 5760} \cup (8192..8202)
        \cup {8232, 8233, 8239, 8287, 12288}

\* ------------------------------------------------------------------------
\* token.rs, error.rs
\* ------------------------------------------------------------------------

TokenKind ==
    { "Identifier", "Integer", "Float", "Plus", "Minus", "Asterisk", "Slash",
      "Percent", "Assign", "Bang", "Equal", "Unequal", "LessThan", "LessEqual",
      "GreaterThan", "GreaterEqual", "Dot", "LParen", "RParen" }

Span(start, end) == [start |-> start, end |-> end]

Token(kind, span, text) == [kind |-> kind, span |-> span, text |-> text]

\* usize::MAX is not a source offset: it is kept symbolic.
UsizeMax == [usize |-> "MAX"]

\* Span::EOI
EOI == [start |-> UsizeMax, end |-> UsizeMax]

SyntaxError(kind, span) == [kind |-> kind, span |-> span]

InvalidLexicalToken == [name |-> "InvalidLexicalToken"]

InvalidNumber == [name |-> "InvalidNumber"]

NumberOverflow == [name |-> "NumberOverflow"]

UnexpectedToken(expected, got) ==
    [name |-> "UnexpectedToken", expected |-> expected, got |-> got]

UnexpectedEndOfInput == [name |-> "UnexpectedEndOfInput"]

\* SyntaxError::UNEXPECTED_EOI with the kind an unexpected token is reported by.
UNEXPECTED_EOI_AS_TOKEN ==
    SyntaxError(UnexpectedToken(<< "Identifier", "Integer", "Float" >>,
                                "Identifier"),
                EOI)

\* SyntaxError::UNEXPECTED_EOI
UNEXPECTED_EOI == SyntaxError(UnexpectedEndOfInput, EOI)

\* Option / Result values.
None == [tag |-> "None"]

Ok(v) == [tag |-> "Ok", value |-> v]

Err(e) == [tag |-> "Err", error |-> e]

\* ------------------------------------------------------------------------
\* lexer.rs
\* ------------------------------------------------------------------------

\* Lexer::new
Lexer_new(text) == [iter |-> text, text |-> text, pos |-> 0, byte_pos |-> 0]

\* Lexer::peek followed by is_some_and(|ch| ch in chars).
peek_is(L, chars) == L.iter # << >> /\ Head(L.iter) \in chars

\* Lexer::next with the byte offset advanced by one for every char.
next_one_byte(L) ==
    IF L.iter = << >> THEN L
    ELSE [L EXCEPT !.iter = Tail(@), !.pos = @ + 1, !.byte_pos = @ + 1]

\* Lexer::next
next(L) ==
    IF L.iter = << >> THEN L
    ELSE [L EXCEPT !.iter = Tail(@),
                   !.pos = @ + 1,
                   !.byte_pos = @ + len_utf8(Head(L.iter))]

\* Lexer::is_peek
is_peek(L, ch) == peek_is(L, {ch})

\* Lexer::try_next: the lexer after the call (its result is is_peek(L, ch)).
try_next(L, ch) == IF is_peek(L, ch) THEN next(L) ELSE L

RECURSIVE next_while(_, _)
\* while self.peek().is_some_and(|ch| ch in chars) { self.next(); }
next_while(L, chars) ==
    IF peek_is(L, chars) THEN next_while(next(L), chars) ELSE L

\* Lexer::skip_whitespace
skip_whitespace(L) == next_while(L, is_whitespace)

\* &self.text[byte_start..self.byte_pos]
slice(L, byte_start) == SubSeq(Utf8(L.text), byte_start + 1, L.byte_pos)

\* Lexer::create_token with the span taken from the byte offsets.
create_token_byte_span(L, start, byte_start, kind) ==
    Token(kind, Span(byte_start, L.byte_pos), slice(L, byte_start))

\* Lexer::create_token
create_token(L, start, byte_start, kind) ==
    Token(kind, Span(start, L.pos), slice(L, byte_start))

\* What a lexing function leaves: the lexer and the LexerResult it returns.
Step(L, result) == [lexer |-> L, result |-> result]

\* Lexer::create_simple_token without the call of next.
create_simple_token_unread(L, kind) ==
    Step(L, Ok(create_token(L, L.pos, L.byte_pos, kind)))

\* Lexer::create_simple_token
create_simple_token(L, kind) ==
    LET start == L.pos
        byte_start == L.byte_pos
        L1 == next(L)
    IN  Step(L1, Ok(create_token(L1, start, byte_start, kind)))

IDENT_CHARS ==
    ChRange("a", "z") \cup ChRange("A", "Z") \cup ChRange("0", "9") \cup {Ch("_")}

\* Lexer::next_identifier_token scanning letters and '_' only.
next_identifier_token_letters(L) ==
    LET start == L.pos
        byte_start == L.byte_pos
        L1 == next_while(L, ChRange("a", "z") \cup ChRange("A", "Z") \cup {Ch("_")})
    IN  Step(L1, Ok(create_token(L1, start, byte_start, "Identifier")))

\* Lexer::next_identifier_token
next_identifier_token(L) ==
    LET start == L.pos
        byte_start == L.byte_pos
        L1 == next_while(L, IDENT_CHARS)
    IN  Step(L1, Ok(create_token(L1, start, byte_start, "Identifier")))

HEX_CHARS == ChRange("a", "f") \cup ChRange("A", "F") \cup ChRange("0", "9")

BIN_CHARS == {Ch("0"), Ch("1")}

OCT_CHARS == ChRange("0", "7")

DEC_CHARS == ChRange("0", "9")

\* Lexer::next_integer_token taking the bare prefix for a number.
next_integer_token_bare(L, start, byte_start, valid_chars) ==
    LET L1 == next_while(L, valid_chars)
    IN  IF L1.pos - start < 2
        THEN Step(L1, Err(SyntaxError(InvalidNumber, Span(start, L1.pos))))
        ELSE Step(L1, Ok(create_token(L1, start, byte_start, "Integer")))

\* Lexer::next_integer_token
next_integer_token(L, start, byte_start, valid_chars) ==
    LET L1 == next_while(L, valid_chars)
    IN  IF L1.pos - start <= 2
        THEN Step(L1, Err(SyntaxError(InvalidNumber, Span(start, L1.pos))))
        ELSE Step(L1, Ok(create_token(L1, start, byte_start, "Integer")))

\* The exponent of next_float_token, entered with 'e' next: signs is what is
\* consumed as a sign after the 'e'.
next_float_exponent(L1, start, byte_start, signs) ==
    LET L2 == IF peek_is(next(L1), signs) THEN next(next(L1)) ELSE next(L1)
        after_e_start == L2.pos
        L3 == next_while(L2, DEC_CHARS)
    IN  IF L3.pos - after_e_start = 0
        THEN Step(L3, Err(SyntaxError(InvalidNumber, Span(start, L3.pos))))
        ELSE Step(L3, Ok(create_token(L3, start, byte_start, "Float")))

\* Lexer::next_float_token without the check for digits after the dot.
next_float_token_unchecked(L, start, byte_start) ==
    LET L1 == next_while(L, DEC_CHARS)
    IN  IF is_peek(L1, Ch("e"))
        THEN next_float_exponent(L1, start, byte_start, {Ch("-")})
        ELSE Step(L1, Ok(create_token(L1, start, byte_start, "Float")))

\* Lexer::next_float_token taking '+' for an exponent sign as well.
next_float_token_plus(L, start, byte_start) ==
    LET after_dot_start == L.pos
        L1 == next_while(L, DEC_CHARS)
    IN  IF L1.pos - after_dot_start = 0
        THEN Step(L1, Err(SyntaxError(InvalidNumber, Span(start, L1.pos))))
        ELSE IF is_peek(L1, Ch("e"))
        THEN next_float_exponent(L1, start, byte_start, {Ch("-"), Ch("+")})
        ELSE Step(L1, Ok(create_token(L1, start, byte_start, "Float")))

\* Lexer::next_float_token
next_float_token(L, start, byte_start) ==
    LET after_dot_start == L.pos
        L1 == next_while(L, DEC_CHARS)
    IN  IF L1.pos - after_dot_start = 0
        THEN Step(L1, Err(SyntaxError(InvalidNumber, Span(start, L1.pos))))
        ELSE IF is_peek(L1, Ch("e"))
        THEN LET L2 == try_next(next(L1), Ch("-"))
                 after_e_start == L2.pos
                 L3 == next_while(L2, DEC_CHARS)
             IN  IF L3.pos - after_e_start = 0
                 THEN Step(L3, Err(SyntaxError(InvalidNumber, Span(start, L3.pos))))
                 ELSE Step(L3, Ok(create_token(L3, start, byte_start, "Float")))
        ELSE Step(L1, Ok(create_token(L1, start, byte_start, "Float")))

\* Lexer::next_number_token taking an exponent right after the integer part.
next_number_token_exponent(L) ==
    LET start == L.pos
        byte_start == L.byte_pos
        L0 == try_next(L, Ch("0"))
        L1 == next_while(L0, DEC_CHARS)
    IN  IF is_peek(L, Ch("0")) /\ is_peek(L0, Ch("x"))
        THEN next_integer_token(next(L0), start, byte_start, HEX_CHARS)
        ELSE IF is_peek(L, Ch("0")) /\ is_peek(L0, Ch("b"))
        THEN next_integer_token(next(L0), start, byte_start, BIN_CHARS)
        ELSE IF is_peek(L, Ch("0")) /\ is_peek(L0, Ch("o"))
        THEN next_integer_token(next(L0), start, byte_start, OCT_CHARS)
        ELSE IF is_peek(L1, Ch("."))
        THEN next_float_token(next(L1), start, byte_start)
        ELSE IF is_peek(L1, Ch("e"))
        THEN next_float_exponent(L1, start, byte_start, {Ch("-")})
        ELSE Step(L1, Ok(create_token(L1, start, byte_start, "Integer")))

\* Lexer::next_number_token
next_number_token(L) ==
    LET start == L.pos
        byte_start == L.byte_pos
        L0 == try_next(L, Ch("0"))
        L1 == next_while(L0, DEC_CHARS)
    IN  IF is_peek(L, Ch("0")) /\ is_peek(L0, Ch("x"))
        THEN next_integer_token(next(L0), start, byte_start, HEX_CHARS)
        ELSE IF is_peek(L, Ch("0")) /\ is_peek(L0, Ch("b"))
        THEN next_integer_token(next(L0), start, byte_start, BIN_CHARS)
        ELSE IF is_peek(L, Ch("0")) /\ is_peek(L0, Ch("o"))
        THEN next_integer_token(next(L0), start, byte_start, OCT_CHARS)
        ELSE IF is_peek(L1, Ch("."))
        THEN next_float_token(next(L1), start, byte_start)
        ELSE Step(L1, Ok(create_token(L1, start, byte_start, "Integer")))

\* The arms of next_token for = ! < > without the look at the following char.
next_compare_token_short(L, start, byte_start, long, short) ==
    Step(next(L), Ok(create_token(next(L), start, byte_start, short)))

\* The arms of next_token for = ! < >: consume the char, then an optional '='.
next_compare_token(L, start, byte_start, long, short) ==
    LET L1 == next(L)
    IN  IF is_peek(L1, Ch("="))
        THEN Step(next(L1), Ok(create_token(next(L1), start, byte_start, long)))
        ELSE Step(L1, Ok(create_token(L1, start, byte_start, short)))

\* The catch-all arm of next_token, reporting the char and leaving it unread.
next_invalid_token_unread(L, start) ==
    Step(L, Err(SyntaxError(InvalidLexicalToken, Span(start, L.pos + 1))))

\* The catch-all arm of next_token with the span's end taken from byte_pos.
next_invalid_token_bytes(L, start) ==
    LET L1 == next(L)
    IN  Step(L1, Err(SyntaxError(InvalidLexicalToken,
                                 Span(start, start + (L1.byte_pos - L.byte_pos)))))

\* The catch-all arm of next_token.
next_invalid_token(L, start) ==
    LET L1 == next(L)
    IN  Step(L1, Err(SyntaxError(InvalidLexicalToken, Span(start, L1.pos))))

\* Lexer::next_token
next_token(L0) ==
    LET L == skip_whitespace(L0)
        start == L.pos
        byte_start == L.byte_pos
    IN  IF L.iter = << >> THEN Step(L, None)
        ELSE LET ch == Head(L.iter)
             IN  IF ch \in ChRange("a", "z") \cup ChRange("A", "Z") \cup {Ch("_")}
                     THEN next_identifier_token(L)
                 ELSE IF ch \in ChRange("0", "9") THEN next_number_token(L)
                 ELSE IF ch = Ch("+") THEN create_simple_token(L, "Plus")
                 ELSE IF ch = Ch("-") THEN create_simple_token(L, "Minus")
                 ELSE IF ch = Ch("*") THEN create_simple_token(L, "Asterisk")
                 ELSE IF ch = Ch("/") THEN create_simple_token(L, "Slash")
                 ELSE IF ch = Ch("%") THEN create_simple_token(L, "Percent")
                 ELSE IF ch = Ch("=")
                     THEN next_compare_token(L, start, byte_start, "Equal", "Assign")
                 ELSE IF ch = Ch("!")
                     THEN next_compare_token(L, start, byte_start, "Unequal", "Bang")
                 ELSE IF ch = Ch("<")
                     THEN next_compare_token(L, start, byte_start,
                                             "LessEqual", "LessThan")
                 ELSE IF ch = Ch(">")
                     THEN next_compare_token(L, start, byte_start,
                                             "GreaterEqual", "GreaterThan")
                 ELSE IF ch = Ch(".") THEN create_simple_token(L, "Dot")
                 ELSE IF ch = Ch("(") THEN create_simple_token(L, "LParen")
                 ELSE IF ch = Ch(")") THEN create_simple_token(L, "RParen")
                 ELSE next_invalid_token(L, start)

RECURSIVE collect_loop_skipping(_, _)
\* The loop of collect_tokens, dropping an error and going on.
collect_loop_skipping(L, tokens) ==
    LET s == next_token(L)
    IN  IF s.result.tag = "None" THEN Step(s.lexer, Ok(tokens))
        ELSE IF s.result.tag = "Err" THEN collect_loop_skipping(s.lexer, tokens)
        ELSE collect_loop_skipping(s.lexer, Append(tokens, s.result.value))

RECURSIVE collect_loop(_, _)
\* The loop of collect_tokens: while let Some(token) = self.next_token()
\* { tokens.push(token?); }
collect_loop(L, tokens) ==
    LET s == next_token(L)
    IN  IF s.result.tag = "None" THEN Step(s.lexer, Ok(tokens))
        ELSE IF s.result.tag = "Err" THEN Step(s.lexer, Err(s.result.error))
        ELSE collect_loop(s.lexer, Append(tokens, s.result.value))

\* Lexer::collect_tokens
collect_tokens(L) == collect_loop(L, << >>)

\* ------------------------------------------------------------------------
\* u64 and the std parsers the Parser calls
\* ------------------------------------------------------------------------

\* One limb of a u64 holds 16 bits.
LimbBase == 65536

\* The u64 whose value is the small number n (n < 65536).
U64(n) == << n, 0, 0, 0 >>

\* u64::wrapping_mul and u64::wrapping_add in the place of the checked ones.
wrapping_mul_add(v, radix, digit) ==
    LET m0 == v[1] * radix + digit
        m1 == v[2] * radix + (m0 \div LimbBase)
        m2 == v[3] * radix + (m1 \div LimbBase)
        m3 == v[4] * radix + (m2 \div LimbBase)
    IN  Ok(<< m0 % LimbBase, m1 % LimbBase, m2 % LimbBase, m3 % LimbBase >>)

\* u64::checked_mul by a radix followed by u64::checked_add of a digit: the
\* u64 v * radix + digit, or None when the product or the sum leaves 64 bits.
checked_mul_add(v, radix, digit) ==
    LET m0 == v[1] * radix
        m1 == v[2] * radix + (m0 \div LimbBase)
        m2 == v[3] * radix + (m1 \div LimbBase)
        m3 == v[4] * radix + (m2 \div LimbBase)
        a0 == (m0 % LimbBase) + digit
        a1 == (m1 % LimbBase) + (a0 \div LimbBase)
        a2 == (m2 % LimbBase) + (a1 \div LimbBase)
        a3 == (m3 % LimbBase) + (a2 \div LimbBase)
    IN  IF m3 \div LimbBase > 0 \/ a3 \div LimbBase > 0 THEN None
        ELSE Ok(<< a0 % LimbBase, a1 % LimbBase, a2 % LimbBase, a3 % LimbBase >>)

\* char::to_digit on one byte of a str: the digit's value, or -1 for None.
to_digit(c, radix) ==
    LET d == IF c \in ChRange("0", "9") THEN c - Ch("0")
             ELSE IF c \in ChRange("a", "z") THEN c - Ch("a") + 10
             ELSE IF c \in ChRange("A", "Z") THEN c - Ch("A") + 10
             ELSE radix
    IN  IF d < radix THEN d ELSE 0 - 1

RECURSIVE from_digits(_, _, _)
\* The digit loop of u64::from_str_radix.
from_digits(digits, radix, result) ==
    IF digits = << >> THEN Ok(result)
    ELSE LET x == to_digit(Head(digits), radix)
             r == checked_mul_add(result, radix, x)
         IN  IF x < 0 THEN Err("InvalidDigit")
             ELSE IF r = None THEN Err("PosOverflow")
             ELSE from_digits(Tail(digits), radix, r.value)

\* u64::from_str_radix on the bytes of a str; an Err carries the IntErrorKind.
from_str_radix(src, radix) ==
    IF src = << >> THEN Err("Empty")
    ELSE IF src \in {<< Ch("+") >>, << Ch("-") >>} THEN Err("InvalidDigit")
    ELSE IF Head(src) = Ch("+") THEN from_digits(Tail(src), radix, U64(0))
    ELSE from_digits(src, radix, U64(0))

RECURSIVE skip_digits(_)
\* The rest of a byte string after its leading run of decimal digits.
skip_digits(s) ==
    IF s # << >> /\ Head(s) \in DEC_CHARS THEN skip_digits(Tail(s)) ELSE s

\* Whether the bytes s are a decimal number as <f64 as FromStr> accepts one:
\* [sign] (digits ['.' [digits]] | '.' digits) [('e'|'E') [sign] digits].
is_f64_literal(s) ==
    LET signs == {Ch("+"), Ch("-")}
        s1 == IF s # << >> /\ Head(s) \in signs THEN Tail(s) ELSE s
        s2 == skip_digits(s1)
        s3 == IF s2 # << >> /\ Head(s2) = Ch(".") THEN Tail(s2) ELSE s2
        s4 == skip_digits(s3)
        mantissa == (Len(s1) - Len(s2)) + (Len(s3) - Len(s4))
        s5 == IF s4 # << >> /\ Head(s4) \in {Ch("e"), Ch("E")} THEN Tail(s4) ELSE s4
        s6 == IF s5 # s4 /\ s5 # << >> /\ Head(s5) \in signs THEN Tail(s5) ELSE s5
        s7 == IF s5 # s4 THEN skip_digits(s6) ELSE s6
    IN  /\ mantissa > 0
        /\ s5 # s4 => Len(s6) - Len(s7) > 0
        /\ s7 = << >>

\* A natural number of any size as the sequence of its LimbBase limbs, least
\* significant first, with no zero limb at the top; << >> is zero.
BigTrim(a) ==
    LET top == { i \in 1..Len(a) : a[i] # 0 }
    IN  IF top = {} THEN << >>
        ELSE SubSeq(a, 1, CHOOSE i \in top : \A j \in top : j <= i)

RECURSIVE BigMulAdd(_, _, _)
\* a * m + c for small m and c.
BigMulAdd(a, m, c) ==
    IF a = << >> THEN (IF c = 0 THEN << >> ELSE << c >>)
    ELSE LET t == Head(a) * m + c
         IN  << t % LimbBase >> \o BigMulAdd(Tail(a), m, t \div LimbBase)

RECURSIVE BigCmp(_, _)
\* -1, 0 or 1 as a is less than, equal to or greater than b.
BigCmp(a, b) ==
    IF Len(a) # Len(b) THEN (IF Len(a) < Len(b) THEN 0 - 1 ELSE 1)
    ELSE IF a = << >> THEN 0
    ELSE IF a[Len(a)] # b[Len(b)] THEN (IF a[Len(a)] < b[Len(b)] THEN 0 - 1 ELSE 1)
    ELSE BigCmp(SubSeq(a, 1, Len(a) - 1), SubSeq(b, 1, Len(b) - 1))

RECURSIVE BigSubLimbs(_, _, _)
\* The limbs of a - b - borrow, for a >= b + borrow.
BigSubLimbs(a, b, borrow) ==
    IF a = << >> THEN << >>
    ELSE LET y == (IF b = << >> THEN 0 ELSE Head(b)) + borrow
             x == Head(a)
         IN  << (IF x >= y THEN x - y ELSE x + LimbBase - y) >>
                 \o BigSubLimbs(Tail(a), IF b = << >> THEN b ELSE Tail(b),
                                IF x >= y THEN 0 ELSE 1)

\* a - b, for a >= b.
BigSub(a, b) == BigTrim(BigSubLimbs(a, b, 0))

\* The bits of a limb.
LimbBits == 16

\* a * 2^n: whole limbs of zeros below, and the rest of the shift within.
BigMulPow2(a, n) ==
    IF a = << >> THEN a
    ELSE [i \in 1..(n \div LimbBits) |-> 0] \o BigMulAdd(a, 2 ^ (n % LimbBits), 0)

\* The number of bits of a: 0 for zero, otherwise one more than the place of
\* its top one bit.
BigBitLen(a) ==
    IF a = << >> THEN 0
    ELSE LimbBits * (Len(a) - 1)
             + (CHOOSE k \in 1..LimbBits : 2 ^ (k - 1) <= a[Len(a)] /\ a[Len(a)] < 2 ^ k)

RECURSIVE BigFromDigits(_)
\* The number the decimal digits ds denote.
BigFromDigits(ds) ==
    IF ds = << >> THEN << >>
    ELSE BigMulAdd(BigFromDigits(SubSeq(ds, 1, Len(ds) - 1)), 10,
                   ds[Len(ds)] - Ch("0"))

RECURSIVE BigMulPow10(_, _)
\* a * 10^n, four powers of ten at a time.
BigMulPow10(a, n) ==
    IF n < 4 \/ a = << >> THEN BigMulAdd(a, 10 ^ n, 0)
    ELSE BigMulPow10(BigMulAdd(a, 10000, 0), n - 4)

\* The largest decimal exponent kept: beyond it every number is zero or
\* infinite.
ExponentCap == 10000

RECURSIVE exponent_value(_, _)
\* The value of the digits of an exponent, saturating at ExponentCap.
exponent_value(ds, acc) ==
    IF ds = << >> THEN acc
    ELSE LET v == acc * 10 + (Head(ds) - Ch("0"))
         IN  exponent_value(Tail(ds), IF v > ExponentCap THEN ExponentCap ELSE v)

\* The parts of a decimal number the bytes s denote: the digits of its
\* mantissa as a number, how many they are, and the power of ten that number
\* is scaled by.
parse_decimal(s) ==
    LET signs == {Ch("+"), Ch("-")}
        s1 == IF s # << >> /\ Head(s) \in signs THEN Tail(s) ELSE s
        s2 == skip_digits(s1)
        s3 == IF s2 # << >> /\ Head(s2) = Ch(".") THEN Tail(s2) ELSE s2
        s4 == skip_digits(s3)
        int_digits == SubSeq(s1, 1, Len(s1) - Len(s2))
        frac_digits == SubSeq(s3, 1, Len(s3) - Len(s4))
        s5 == IF s4 # << >> THEN Tail(s4) ELSE s4
        s6 == IF s5 # << >> /\ Head(s5) \in signs THEN Tail(s5) ELSE s5
        e == exponent_value(s6, 0)
        exponent == IF s5 # << >> /\ Head(s5) = Ch("-") THEN 0 - e ELSE e
    IN  [digits |-> BigFromDigits(int_digits \o frac_digits),
         ndigits |-> Len(int_digits) + Len(frac_digits),
         exponent |-> exponent - Len(frac_digits)]

\* n or m scaled by a power of two to the bit length of the other, and e with
\* n / m * 2^e what n / m was.
align_bits(n, m, shift) ==
    IF shift < 0 THEN [n |-> BigMulPow2(n, 0 - shift), m |-> m, e |-> shift]
    ELSE [n |-> n, m |-> BigMulPow2(m, shift), e |-> shift]

\* s.n doubled if it is less than s.m.
at_least_one(s) ==
    IF BigCmp(s.n, s.m) < 0
    THEN [n |-> BigMulPow2(s.n, 1), m |-> s.m, e |-> s.e - 1]
    ELSE s

\* n and m scaled by powers of two to m <= n < 2m, and e with n / m * 2^e what
\* n / m was.
normalize(n, m) == at_least_one(align_bits(n, m, BigBitLen(n) - BigBitLen(m)))

RECURSIVE quotient_bits(_, _, _)
\* Long division of d.rem by m, for m <= d.rem < 2m: the next nbits bits of
\* the quotient, the bit of weight one first, appended to the bits d.q, and
\* twice what remains.
quotient_bits(d, m, nbits) ==
    IF nbits = 0 \/ d.rem = << >> THEN [q |-> BigMulPow2(d.q, nbits), rem |-> d.rem]
    ELSE IF BigCmp(d.rem, m) >= 0
        THEN quotient_bits([q |-> BigMulAdd(d.q, 2, 1),
                            rem |-> BigMulAdd(BigSub(d.rem, m), 2, 0)],
                           m, nbits - 1)
    ELSE quotient_bits([q |-> BigMulAdd(d.q, 2, 0), rem |-> BigMulAdd(d.rem, 2, 0)],
                       m, nbits - 1)

\* Rounding that never rounds up.
round_toward_zero(q, half) == FALSE

\* Round to nearest, ties to even: whether q is to be rounded up, half being
\* -1, 0 or 1 as what was cut off is less than, equal to or more than half a
\* unit of q.
round_nearest_even(q, half) ==
    half > 0 \/ (half = 0 /\ q # << >> /\ q[1] % 2 = 1)

\* The limb i of a, zero above its top.
Limb(a, i) == IF i <= Len(a) THEN a[i] ELSE 0

\* An f64: its sign bit, its 11 exponent bits and its 52 fraction bits (as
\* four limbs).
F64(sign, exponent, fraction) ==
    [sign |-> sign, exponent |-> exponent, fraction |-> fraction]

F64Zero(sign) == F64(sign, 0, << 0, 0, 0, 0 >>)

F64Infinity(sign) == F64(sign, 2047, << 0, 0, 0, 0 >>)

\* The bits of the significand of a double of binary exponent e: 53 when it
\* is normal, fewer when it is subnormal.
significand_bits(e) ==
    IF e >= 0 - 1022 THEN 53 ELSE IF e + 1075 < 0 THEN 0 ELSE e + 1075

\* The quotient d.q rounded by what remains of the division by m.
rounded(d, m) ==
    IF round_nearest_even(d.q, BigCmp(d.rem, m)) THEN BigMulAdd(d.q, 1, 1) ELSE d.q

\* The f64 of binary exponent e and the rounded significand: a carry out of
\* the significand goes into the exponent, and an exponent out of range
\* gives infinity.
encode_f64(sign, e, mantissa) ==
    LET exponent == (IF e >= 0 - 1022 THEN e + 1022 ELSE 0)
                        + (Limb(mantissa, 4) \div 16)
    IN  IF e + 1075 < 0 THEN F64Zero(sign)
        ELSE IF exponent >= 2047 THEN F64Infinity(sign)
        ELSE F64(sign, exponent,
                 << Limb(mantissa, 1), Limb(mantissa, 2), Limb(mantissa, 3),
                    Limb(mantissa, 4) % 16 >>)

\* The f64 nearest s.n / s.m * 2^s.e, for s.m <= s.n < 2 s.m.
round_f64(sign, s) ==
    encode_f64(sign, s.e,
               rounded(quotient_bits([q |-> << >>, rem |-> s.n], s.m,
                                     significand_bits(s.e)),
                       s.m))

\* The f64 nearest n / m, ties to even.
nearest_f64(sign, n, m) == round_f64(sign, normalize(n, m))

\* The f64 nearest the decimal number of the parts d.
dec2flt(d, sign) ==
    IF d.digits = << >> \/ d.exponent + d.ndigits < 0 - 400 THEN F64Zero(sign)
    ELSE IF d.exponent > 400 THEN F64Infinity(sign)
    ELSE IF d.exponent >= 0
        THEN nearest_f64(sign, BigMulPow10(d.digits, d.exponent), << 1 >>)
    ELSE nearest_f64(sign, d.digits, BigMulPow10(<< 1 >>, 0 - d.exponent))

\* str::parse::<f64>: the double nearest the decimal number the bytes denote,
\* or Err for anything that is no number.
parse_f64(s) ==
    IF ~is_f64_literal(s) THEN Err("Invalid")
    ELSE Ok(dec2flt(parse_decimal(s), IF Head(s) = Ch("-") THEN 1 ELSE 0))

\* f64::to_bits: the sign bit, the exponent bits and the fraction bits, from
\* the top, as a u64.
to_bits(value) ==
    << value.fraction[1], value.fraction[2], value.fraction[3],
       value.fraction[4] + 16 * value.exponent + 32768 * value.sign >>

\* ------------------------------------------------------------------------
\* parser.rs
\* ------------------------------------------------------------------------

\* Parser::new
Parser_new(tokens) == [tokens |-> tokens]

\* What a parsing function leaves: the parser and the value it returns.
PStep(P, result) == [parser |-> P, result |-> result]

\* Parser::peek
parser_peek(P) == IF P.tokens = << >> THEN None ELSE Ok(Head(P.tokens))

\* Parser::next
parser_next(P) ==
    IF P.tokens = << >> THEN PStep(P, None)
    ELSE PStep([P EXCEPT !.tokens = Tail(@)], Ok(Head(P.tokens)))

\* kinds.contains(&kind) on a slice of TokenKind.
contains(kinds, kind) == \E i \in 1..Len(kinds) : kinds[i] = kind

\* Parser::expect looking at the next token without consuming it.
expect_peeked(P, kinds) ==
    LET n == parser_peek(P)
    IN  IF n = None THEN PStep(P, Err(UNEXPECTED_EOI))
        ELSE LET tok == n.value
             IN  IF contains(kinds, tok.kind) THEN PStep(P, Ok(tok))
                 ELSE PStep(P,
                            Err(SyntaxError(UnexpectedToken(kinds, tok.kind),
                                            tok.span)))

\* Parser::expect
expect(P, kinds) ==
    LET n == parser_next(P)
    IN  IF n.result = None THEN PStep(n.parser, Err(UNEXPECTED_EOI))
        ELSE LET tok == n.result.value
             IN  IF contains(kinds, tok.kind) THEN PStep(n.parser, Ok(tok))
                 ELSE PStep(n.parser,
                            Err(SyntaxError(UnexpectedToken(kinds, tok.kind),
                                            tok.span)))

\* Parser::parse_identifier pairing the text with an empty span at the
\* token's start.
parse_identifier_empty_span(P) ==
    LET e == expect(P, << "Identifier" >>)
    IN  IF e.result.tag = "Err" THEN e
        ELSE LET ident_token == e.result.value
             IN  PStep(e.parser,
                       Ok([variant |-> "Identifier", text |-> ident_token.text,
                           span |-> Span(ident_token.span.start,
                                         ident_token.span.start)]))

\* Parser::parse_identifier
parse_identifier(P) ==
    LET e == expect(P, << "Identifier" >>)
    IN  IF e.result.tag = "Err" THEN e
        ELSE LET ident_token == e.result.value
             IN  PStep(e.parser,
                       Ok([variant |-> "Identifier", text |-> ident_token.text,
                           span |-> ident_token.span]))

\* text.starts_with(prefix) on the bytes of a str.
starts_with(text, prefix) ==
    Len(text) >= Len(prefix) /\ SubSeq(text, 1, Len(prefix)) = prefix

\* The match of parse_integer_literal with radix 16 for the 0o prefix too.
parse_u64_octal_as_hex(text) ==
    IF starts_with(text, Str(<< "0", "x" >>))
        THEN from_str_radix(SubSeq(text, 3, Len(text)), 16)
    ELSE IF starts_with(text, Str(<< "0", "o" >>))
        THEN from_str_radix(SubSeq(text, 3, Len(text)), 16)
    ELSE IF starts_with(text, Str(<< "0", "b" >>))
        THEN from_str_radix(SubSeq(text, 3, Len(text)), 2)
    ELSE from_str_radix(text, 10)

\* The radix parse_integer_literal selects by the literal's prefix, and the
\* digits it parses: the match on integer_token.text.
parse_u64(text) ==
    IF starts_with(text, Str(<< "0", "x" >>))
        THEN from_str_radix(SubSeq(text, 3, Len(text)), 16)
    ELSE IF starts_with(text, Str(<< "0", "o" >>))
        THEN from_str_radix(SubSeq(text, 3, Len(text)), 8)
    ELSE IF starts_with(text, Str(<< "0", "b" >>))
        THEN from_str_radix(SubSeq(text, 3, Len(text)), 2)
    ELSE from_str_radix(text, 10)

\* unreachable!()
Panic == [tag |-> "Panic"]

\* Parser::parse_integer_literal
parse_integer_literal(P) ==
    LET e == expect(P, << "Integer" >>)
    IN  IF e.result.tag = "Err" THEN e
        ELSE LET integer_token == e.result.value
                 result == parse_u64(integer_token.text)
             IN  IF result.tag = "Ok"
                 THEN PStep(e.parser,
                            Ok([variant |-> "Integer", value |-> result.value,
                                span |-> integer_token.span]))
                 ELSE IF result.error \in {"NegOverflow", "PosOverflow"}
                 THEN PStep(e.parser,
                            Err(SyntaxError(NumberOverflow, integer_token.span)))
                 ELSE PStep(e.parser, Panic)

\* Parser::parse_float_literal
parse_float_literal(P) ==
    LET e == expect(P, << "Float" >>)
    IN  IF e.result.tag = "Err" THEN e
        ELSE LET float_token == e.result.value
                 value == parse_f64(float_token.text)
             IN  IF value.tag = "Err"
                 THEN PStep(e.parser,
                            Err(SyntaxError(InvalidNumber, float_token.span)))
                 ELSE PStep(e.parser,
                            Ok([variant |-> "Float",
                                value_bits |-> to_bits(value.value),
                                span |-> float_token.span]))

\* Parser::parse_expr_atom with parse_identifier as the arm of every other kind.
parse_expr_atom_as_identifier(P) ==
    LET peek_token == parser_peek(P)
    IN  IF peek_token = None THEN PStep(P, Err(UNEXPECTED_EOI))
        ELSE LET kind == peek_token.value.kind
             IN  IF kind = "Integer" THEN parse_integer_literal(P)
                 ELSE IF kind = "Float" THEN parse_float_literal(P)
                 ELSE parse_identifier(P)

\* Parser::parse_expr_atom with expect rejecting the token of any other kind.
parse_expr_atom_expecting(P) ==
    LET peek_token == parser_peek(P)
    IN  IF peek_token = None THEN PStep(P, Err(UNEXPECTED_EOI))
        ELSE LET kind == peek_token.value.kind
             IN  IF kind = "Identifier" THEN parse_identifier(P)
                 ELSE IF kind = "Integer" THEN parse_integer_literal(P)
                 ELSE IF kind = "Float" THEN parse_float_literal(P)
                 ELSE expect(P, << "Identifier", "Integer", "Float" >>)

\* Parser::parse_expr_atom
parse_expr_atom(P) ==
    LET peek_token == parser_peek(P)
    IN  IF peek_token = None THEN PStep(P, Err(UNEXPECTED_EOI))
        ELSE LET kind == peek_token.value.kind
             IN  IF kind = "Identifier" THEN parse_identifier(P)
                 ELSE IF kind = "Integer" THEN parse_integer_literal(P)
                 ELSE IF kind = "Float" THEN parse_float_literal(P)
                 ELSE PStep(P,
                            Err(SyntaxError(
                                UnexpectedToken(<< "Identifier", "Integer", "Float" >>,
                                                kind),
                                peek_token.value.span)))

\* ------------------------------------------------------------------------
\* Source texts
\* ------------------------------------------------------------------------

\* All sequences over alphabet of length at most n.
SeqsUpTo(alphabet, n) == UNION {[1..k -> alphabet] : k \in 0..n}

\* A letter, a digit, one-byte and three-byte whitespace, one-byte and
\* two-byte characters no token starts with, and the comparison characters.
GeneralAlphabet ==
    { Ch("a"), Ch("1"), Ch(" "), EmSpace, Ch("@"), EAcute,
      Ch("="), Ch("!"), Ch("<"), Ch(">") }

\* What a float literal is made of, and '+', which is no exponent sign.
FloatAlphabet == { Ch("1"), Ch("."), Ch("e"), Ch("-"), Ch("+") }

\* The texts over the float alphabet behind a leading '0', the digit that
\* next_number_token looks at first.
LeadingZeroTexts ==
    { << Ch("0") >> \o t : t \in UNION {[1..k -> FloatAlphabet] : k \in 0..(MaxFloatLen - 1)} }

\* The radix prefixes, digits valid in every radix ('0', '1'), in radix 16
\* only ('8', and 'b' itself), and in none ('x', 'o'), and a space.
RadixAlphabet == { Ch("0"), Ch("x"), Ch("b"), Ch("o"), Ch("1"), Ch("8"), Ch(" ") }

Repeat(ch, n) == [i \in 1..n |-> ch]

\* Integer literals long enough to leave the 64-bit range in every radix: a
\* prefix, one leading digit and a run of one repeated digit.
LongLiterals ==
    { prefix \o << lead >> \o Repeat(fill, n) :
        prefix \in { << >>, Str(<< "0", "x" >>), Str(<< "0", "o" >>),
                     Str(<< "0", "b" >>) },
        lead \in { Ch("0"), Ch("1"), Ch("2") },
        fill \in { Ch("0"), Ch("1"), Ch("7"), Ch("9"), Ch("f") },
        n \in 0..MaxRun }

\* u64::MAX in decimal, and the number after it.
BoundaryLiterals ==
    { Str(<< "1", "8", "4", "4", "6", "7", "4", "4", "0", "7",
             "3", "7", "0", "9", "5", "5", "1", "6", "1", "5" >>),
      Str(<< "1", "8", "4", "4", "6", "7", "4", "4", "0", "7",
             "3", "7", "0", "9", "5", "5", "1", "6", "1", "6" >>) }

\* The inputs of the tests error and invalid_numbers of lexer.rs.
TestTexts ==
    { Str(<< "@" >>), Str(<< "0", "x" >>), Str(<< "0", "b" >>), Str(<< "0", "o" >>),
      Str(<< "1", ".", "e", "-", "3" >>), Str(<< "1", ".", "3", "e", "-" >>) }

\* The lexemes of the input of the test all_tokens of lexer.rs, in order.
AllTokensLexemes ==
    << Str(<< "h", "e", "l", "l", "o" >>),
       Str(<< "1", "2" >>),
       Str(<< "0", "x", "A", "F", "F", "E" >>),
       Str(<< "0", "b", "1", "0", "0", "1" >>),
       Str(<< "0", "o", "7", "7", "7" >>),
       Str(<< "1", ".", "0", "0", "3" >>),
       Str(<< "1", ".", "2", "3", "e", "1", "2" >>),
       Str(<< "1", ".", "6", "7", "e", "-", "3" >>),
       Str(<< "+" >>), Str(<< "-" >>), Str(<< "*" >>), Str(<< "/" >>),
       Str(<< "%" >>), Str(<< "=" >>), Str(<< "!" >>), Str(<< "<" >>),
       Str(<< ">" >>), Str(<< "=", "=" >>), Str(<< "!", "=" >>),
       Str(<< "<", "=" >>), Str(<< ">", "=" >>), Str(<< "." >>),
       Str(<< "(" >>), Str(<< ")" >>) >>

RECURSIVE JoinWithSpaces(_)
\* The lexemes in order with one space between neighbours.
JoinWithSpaces(lexemes) ==
    IF Len(lexemes) = 0 THEN << >>
    ELSE IF Len(lexemes) = 1 THEN lexemes[1]
    ELSE lexemes[1] \o << Ch(" ") >> \o JoinWithSpaces(Tail(lexemes))

\* The input of the test all_tokens of lexer.rs.
AllTokensText == JoinWithSpaces(AllTokensLexemes)

\* The inputs of the test expr_atom of parser.rs.
ExprAtomTexts ==
    { Str(<< "0", "x", "1", "2" >>),
      Str(<< "1", "2", ".", "3", "e", "-", "5" >>),
      Str(<< "c", "e", "n", "t", "s" >>) }

\* Each lexeme of all_tokens as a text of its own, and texts where a digit run
\* meets letters.
LexemeTexts ==
    { AllTokensLexemes[i] : i \in 1..Len(AllTokensLexemes) }
        \cup { Str(<< "1", "e", "5" >>), Str(<< "1", "a", "b", "c" >>),
               Str(<< "a", "_", "1", ".", "5" >>),
               Str(<< "_", "A", "z", "9", "-", "Z", "_" >>),
               Str(<< "1", "e", "5", " ", "1", ".", "5", "e", "-", "3" >>) }

SourceTexts ==
    SeqsUpTo(GeneralAlphabet, MaxLen)
        \cup SeqsUpTo(FloatAlphabet, MaxFloatLen)
        \cup LeadingZeroTexts
        \cup SeqsUpTo(RadixAlphabet, MaxRadixLen)
        \cup LongLiterals
        \cup BoundaryLiterals
        \cup TestTexts
        \cup ExprAtomTexts
        \cup LexemeTexts
        \cup { AllTokensText }

\* ------------------------------------------------------------------------
\* The state machine: one source text, a Lexer stepped by hand with
\* next_token, a second Lexer over the same text drained by collect_tokens,
\* and a Parser over the collected tokens.
\* ------------------------------------------------------------------------

VARIABLES
    text,       \* the source text, owned by the caller
    lexer,      \* the Lexer stepped with next_token
    before,     \* that Lexer as it was when the last next_token call began
    last,       \* what the last next_token call returned
    items,      \* every Some(..) next_token returned so far, with the cursor
    nones,      \* how many times next_token returned None
    collected,  \* what Lexer::new(text).collect_tokens() left
    parser,     \* the Parser, once constructed
    pbefore,    \* the Parser as it was when the last parse_expr_atom call began
    parsed,     \* what the parse_expr_atom calls returned, in order
    expected    \* the last expect call: its kinds, the Parser before, the result

vars ==
    << text, lexer, before, last, items, nones, collected, parser, pbefore, parsed,
       expected >>

NotCalled == [tag |-> "NotCalled"]

Init ==
    /\ text \in SourceTexts
    /\ lexer = Lexer_new(text)
    /\ before = Lexer_new(text)
    /\ last = NotCalled
    /\ items = << >>
    /\ nones = 0
    /\ collected = NotCalled
    /\ parser = None
    /\ pbefore = None
    /\ parsed = << >>
    /\ expected = NotCalled

\* One call of lexer.next_token() (also Iterator::next).
NextToken ==
    /\ nones <= MaxNone
    /\ LET s == next_token(lexer)
       IN  /\ lexer' = s.lexer
           /\ before' = lexer
           /\ last' = s.result
           /\ items' = IF s.result = None THEN items
                       ELSE Append(items, [result |-> s.result, pos |-> s.lexer.pos])
           /\ nones' = IF s.result = None THEN nones + 1 ELSE nones
    /\ UNCHANGED << text, collected, parser, pbefore, parsed, expected >>

\* Lexer::new(text).collect_tokens(), on a Lexer of its own: it shares nothing
\* with the stepped Lexer, so it is run once the stepping is over.
CollectTokens ==
    /\ nones > MaxNone
    /\ collected = NotCalled
    /\ collected' = collect_tokens(Lexer_new(text))
    /\ UNCHANGED << text, lexer, before, last, items, nones, parser, pbefore, parsed,
                    expected >>

\* Parser::new(tokens.into_iter()) on the tokens collect_tokens returned.
ParserNew ==
    /\ parser = None
    /\ collected # NotCalled
    /\ collected.result.tag = "Ok"
    /\ parser' = Ok(Parser_new(collected.result.value))
    /\ UNCHANGED << text, lexer, before, last, items, nones, collected, pbefore, parsed,
                    expected >>

\* One call of parser.parse_expr_atom().
ParseExprAtom ==
    /\ parser # None
    /\ Len(parsed) < MaxParseCalls
    /\ LET s == parse_expr_atom(parser.value)
       IN  /\ parser' = Ok(s.parser)
           /\ pbefore' = parser
           /\ parsed' = Append(parsed, s.result)
    /\ UNCHANGED << text, lexer, before, last, items, nones, collected, expected >>

Next == NextToken \/ CollectTokens \/ ParserNew \/ ParseExprAtom

Spec == Init /\ [][Next]_vars

\* The kinds expect is called with: the slices the parse functions pass, and
\* slices of other lengths.
ExpectKinds ==
    { << "Identifier" >>, << "Integer" >>, << "Float" >>,
      << "Identifier", "Integer", "Float" >>, << "Assign", "Dot" >>, << >> }

\* A letter, a digit, whitespace and two one-character tokens.
ExpectAlphabet == { Ch("a"), Ch("1"), Ch(" "), Ch("="), Ch(".") }

ExpectTexts == SeqsUpTo(ExpectAlphabet, MaxLen)

InitExpect ==
    /\ text \in ExpectTexts
    /\ lexer = Lexer_new(text)
    /\ before = Lexer_new(text)
    /\ last = NotCalled
    /\ items = << >>
    /\ nones = 0
    /\ collected = NotCalled
    /\ parser = None
    /\ pbefore = None
    /\ parsed = << >>
    /\ expected = NotCalled

\* One call of parser.expect(kinds).
Expect ==
    /\ parser # None
    /\ \E kinds \in ExpectKinds :
           LET s == expect(parser.value, kinds)
           IN  /\ parser' = Ok(s.parser)
               /\ expected' = [kinds |-> kinds, before |-> parser.value,
                               result |-> s.result]
    /\ UNCHANGED << text, lexer, before, last, items, nones, collected, pbefore, parsed >>

NextExpect == NextToken \/ CollectTokens \/ ParserNew \/ Expect

\* The lexer and the parser with expect called on its own.
SpecExpect == InitExpect /\ [][NextExpect]_vars

\* The tokens a Parser is constructed from when its caller builds them: an
\* identifier, integers within and beyond the 64-bit range, a float, a Float
\* token whose text is no number, and two tokens that begin no atom.
GivenLexemes ==
    { [kind |-> "Identifier", text |-> Str(<< "a" >>)],
      [kind |-> "Integer", text |-> Str(<< "0", "x", "1", "2" >>)],
      [kind |-> "Integer",
       text |-> Str(<< "1", "8", "4", "4", "6", "7", "4", "4", "0", "7",
                       "3", "7", "0", "9", "5", "5", "1", "6", "1", "6" >>)],
      [kind |-> "Float", text |-> Str(<< "1", ".", "5" >>)],
      [kind |-> "Float", text |-> Str(<< "." >>)],
      [kind |-> "Plus", text |-> Str(<< "+" >>)],
      [kind |-> "LParen", text |-> Str(<< "(" >>)] }

RECURSIVE LaidOut(_, _)
\* The lexemes as tokens, one space apart, the first at character offset pos.
LaidOut(lexemes, pos) ==
    IF lexemes = << >> THEN << >>
    ELSE << Token(Head(lexemes).kind,
                  Span(pos, pos + Len(Head(lexemes).text)),
                  Utf8(Head(lexemes).text)) >>
             \o LaidOut(Tail(lexemes), pos + Len(Head(lexemes).text) + 1)

GivenTokens == { LaidOut(ls, 0) : ls \in SeqsUpTo(GivenLexemes, MaxTokens) }

\* Parser::new(tokens) on tokens of the caller's making, no lexer involved.
InitTokens ==
    /\ text = << >>
    /\ lexer = Lexer_new(text)
    /\ before = Lexer_new(text)
    /\ last = NotCalled
    /\ items = << >>
    /\ nones = 0
    /\ collected = NotCalled
    /\ \E tokens \in GivenTokens : parser = Ok(Parser_new(tokens))
    /\ pbefore = None
    /\ parsed = << >>
    /\ expected = NotCalled

NextTokens == ParseExprAtom

\* parse_expr_atom called on a Parser over any tokens.
SpecTokens == InitTokens /\ [][NextTokens]_vars

\* ------------------------------------------------------------------------
\* Properties
\* ------------------------------------------------------------------------

\* The chars of the source text at character offsets [start, end).
CharSlice(start, end) == SubSeq(text, start + 1, end)

\* The character at character offset i of the source text.
CharAt(i) == text[i + 1]

RECURSIVE RunEnd(_, _)
\* The offset where the maximal run of chars starting at offset i of the source
\* text ends: the first offset from i on whose character is not in chars.
RunEnd(i, chars) ==
    IF i < Len(text) /\ CharAt(i) \in chars THEN RunEnd(i + 1, chars) ELSE i

\* A next_token call has returned; TokenStart is the offset of the first
\* character after the whitespace the call skipped (the text's length if none).
Called == last # NotCalled

TokenStart == RunEnd(before.pos, is_whitespace)

\* The tokens among the items returned so far.
TokenItems == { i \in 1..Len(items) : items[i].result.tag = "Ok" }

ErrorItems == { i \in 1..Len(items) : items[i].result.tag = "Err" }

\* C1: for every token next_token returned, the chars of the source text at the
\* character offsets [span.start, span.end) are exactly the token's text; the
\* span counts characters, not bytes.
C1_TokenTextIsSpanSlice ==
    \A i \in TokenItems :
        LET tok == items[i].result.value
        IN  /\ tok.span.start <= tok.span.end
            /\ tok.span.end <= Len(text)
            /\ tok.text = Utf8(CharSlice(tok.span.start, tok.span.end))

\* A token was returned that lies behind a multi-byte whitespace or invalid
\* character, so that its byte offsets differ from its character offsets.
C1_Witness ==
    \E i \in TokenItems :
        LET tok == items[i].result.value
        IN  /\ tok.span.start > 0
            /\ \E j \in 0..(tok.span.start - 1) : CharAt(j) \in {EmSpace, EAcute}
            /\ tok.span.end > tok.span.start

\* The stepping is over: next_token has returned None.
Exhausted == nones > 0

\* C2: collect_tokens returns Ok(ts) exactly when the step-by-step sequence
\* over the same source has no error, ts being all its tokens in order;
\* otherwise it returns the first error of that sequence, and its lexer stands
\* where the stepped lexer stood right after that error.
C2_CollectIsStepsUntilFirstError ==
    collected # NotCalled =>
        IF ErrorItems = {}
        THEN /\ collected.result = Ok([i \in 1..Len(items) |-> items[i].result.value])
             /\ collected.lexer.pos = lexer.pos
        ELSE LET first == CHOOSE i \in ErrorItems : \A j \in ErrorItems : i <= j
             IN  /\ collected.result = Err(items[first].result.error)
                 /\ collected.lexer.pos = items[first].pos

\* collect_tokens returned an error that has tokens before it and more items
\* after it in the step-by-step sequence.
C2_Witness ==
    /\ collected # NotCalled
    /\ collected.result.tag = "Err"
    /\ \E i \in ErrorItems : i > 1 /\ i < Len(items) /\ (i - 1) \in TokenItems
                             /\ \A j \in ErrorItems : i <= j

\* Every item next_token returns when stepping a new Lexer over src to its end.
RECURSIVE StepAll(_)
StepAll(L) ==
    LET s == next_token(L)
    IN  IF s.result = None THEN << >> ELSE << s.result >> \o StepAll(s.lexer)

\* A span, and an item's span, moved right by n characters.
ShiftSpan(span, n) == Span(span.start + n, span.end + n)

ShiftItem(r, n) ==
    IF r.tag = "Ok"
    THEN Ok([r.value EXCEPT !.span = ShiftSpan(@, n)])
    ELSE Err([r.error EXCEPT !.span = ShiftSpan(@, n)])

\* C3: when next_token returns an error the cursor is already past the bad
\* input (at the end of the error's span); the calls after it return exactly
\* what the text after the cursor lexes to; and None is only ever returned
\* when nothing but whitespace remains, also right after an error.
C3_SteppingGoesOnAfterError ==
    /\ \A i \in ErrorItems :
           /\ items[i].pos = items[i].result.error.span.end
           /\ items[i].pos > (IF i = 1 THEN 0 ELSE items[i - 1].pos)
           /\ Exhausted =>
                  LET rest == StepAll(Lexer_new(CharSlice(items[i].pos, Len(text))))
                  IN  /\ Len(items) - i = Len(rest)
                      /\ \A j \in 1..Len(rest) :
                             items[i + j].result = ShiftItem(rest[j], items[i].pos)
    /\ (Called /\ last = None) =>
           \A j \in before.pos..(Len(text) - 1) : CharAt(j) \in is_whitespace
    /\ (text = Str(<< "@", " ", "a" >>) /\ Exhausted) =>
           /\ Len(items) = 2
           /\ items[1].result = Err(SyntaxError(InvalidLexicalToken, Span(0, 1)))
           /\ items[2].result = Ok(Token("Identifier", Span(2, 3), Str(<< "a" >>)))

\* An error was followed by a token and then by the end of the sequence.
C3_Witness ==
    /\ Exhausted
    /\ \E i \in ErrorItems : i < Len(items) /\ (i + 1) \in TokenItems

\* C4: every next_token call that returns a token or an error moves the cursor
\* strictly forward and never past the end of the text, so at most Len(text)
\* items are returned; and once None was returned every later call returns
\* None and leaves the cursor where it is.
C4_CursorAdvancesAndSequenceEnds ==
    /\ lexer.pos <= Len(text)
    /\ Len(items) <= Len(text)
    /\ \A i \in 1..Len(items) :
           items[i].pos > (IF i = 1 THEN 0 ELSE items[i - 1].pos)
    /\ (Called /\ last # None) => lexer.pos > before.pos
    /\ Called => lexer.pos >= before.pos
    /\ Exhausted => last = None
    /\ nones > 1 => lexer = before

\* next_token returned None a second time, after as many items as the text
\* has characters.
C4_Witness ==
    /\ nones > 1
    /\ Len(text) >= 2
    /\ Len(items) = Len(text)

\* The characters that start a one-or-two-character token, with the kinds of
\* the two-character and the one-character token.
CompareKinds ==
    { << Ch("="), "Equal", "Assign" >>, << Ch("!"), "Unequal", "Bang" >>,
      << Ch("<"), "LessEqual", "LessThan" >>,
      << Ch(">"), "GreaterEqual", "GreaterThan" >> }

\* C5: when the next character is one of = ! < >, next_token returns the
\* two-character token with a span of length 2 exactly when the character right
\* after it is '=', and otherwise the one-character token with a span of length
\* 1, leaving the following character unread.
C5_CompareTokens ==
    Called =>
        \A ck \in CompareKinds :
            LET s == TokenStart
            IN  (s < Len(text) /\ CharAt(s) = ck[1]) =>
                    IF s + 1 < Len(text) /\ CharAt(s + 1) = Ch("=")
                    THEN /\ last = Ok(Token(ck[2], Span(s, s + 2),
                                            << ck[1], Ch("=") >>))
                         /\ lexer.pos = s + 2
                    ELSE /\ last = Ok(Token(ck[3], Span(s, s + 1), << ck[1] >>))
                         /\ lexer.pos = s + 1

\* "==" was lexed as one Equal token and the sequence ended after it.
C5_Witness ==
    /\ text = Str(<< "=", "=" >>)
    /\ Exhausted
    /\ Len(items) = 1
    /\ items[1].result = Ok(Token("Equal", Span(0, 2), Str(<< "=", "=" >>)))

\* The chars that are digits in a radix, by char::to_digit.
DigitsOf == [radix \in {2, 8, 10, 16} |-> { c \in 0..127 : to_digit(c, radix) >= 0 }]

Digits(radix) == DigitsOf[radix]

\* The radix prefix characters with the radix each selects.
RadixPrefixes == { << Ch("x"), 16 >>, << Ch("b"), 2 >>, << Ch("o"), 8 >> }

\* C6: when the next token starts at offset s with '0' and 'x', 'b' or 'o',
\* and no digit valid in the selected radix follows, next_token returns
\* InvalidNumber with span [s, s+2) and leaves the cursor at s+2; when at least
\* one valid digit follows, it returns an Integer token covering the prefix and
\* the maximal run of valid digits.
C6_RadixPrefix ==
    Called =>
        \A pr \in RadixPrefixes :
            LET s == TokenStart
            IN  (s + 1 < Len(text) /\ CharAt(s) = Ch("0") /\ CharAt(s + 1) = pr[1]) =>
                    LET e == RunEnd(s + 2, Digits(pr[2]))
                    IN  IF e = s + 2
                        THEN /\ last = Err(SyntaxError(InvalidNumber, Span(s, s + 2)))
                             /\ lexer.pos = s + 2
                        ELSE /\ last = Ok(Token("Integer", Span(s, e),
                                                Utf8(CharSlice(s, e))))
                             /\ lexer.pos = e

\* A bare binary prefix, followed by a digit that only other radixes have, was
\* reported as InvalidNumber at an offset other than 0.
C6_Witness ==
    /\ Called
    /\ TokenStart > 0
    /\ TokenStart + 2 < Len(text)
    /\ CharAt(TokenStart) = Ch("0")
    /\ CharAt(TokenStart + 1) = Ch("b")
    /\ CharAt(TokenStart + 2) = Ch("8")
    /\ last = Err(SyntaxError(InvalidNumber, Span(TokenStart, TokenStart + 2)))

\* C7: when the next token starts at offset s with a run of decimal digits
\* that is directly followed by '.' at offset d, and no decimal digit follows
\* the '.', next_token returns InvalidNumber with span [s, d+1) and leaves the
\* cursor right after the dot: a following exponent is no part of the error.
C7_EmptyFraction ==
    /\ Called =>
           LET s == TokenStart
               d == RunEnd(s, Digits(10))
           IN  (/\ d > s
                /\ d < Len(text)
                /\ CharAt(d) = Ch(".")
                /\ (d + 1 < Len(text) => CharAt(d + 1) \notin Digits(10))) =>
                   /\ last = Err(SyntaxError(InvalidNumber, Span(s, d + 1)))
                   /\ lexer.pos = d + 1
    /\ (text = Str(<< "1", ".", "e", "-", "3" >>) /\ Len(items) > 0) =>
           items[1].result = Err(SyntaxError(InvalidNumber, Span(0, 2)))

\* A digit run and a dot directly followed by an exponent were reported as
\* InvalidNumber, the cursor standing before the 'e'.
C7_Witness ==
    /\ Called
    /\ last.tag = "Err"
    /\ last.error.kind = InvalidNumber
    /\ lexer.pos + 1 < Len(text)
    /\ CharAt(lexer.pos - 1) = Ch(".")
    /\ CharAt(lexer.pos) = Ch("e")
    /\ CharAt(lexer.pos + 1) = Ch("-")

\* C8: when the fractional digits of a float literal starting at offset s are
\* followed by 'e', then an optional single '-', then no decimal digit,
\* next_token returns InvalidNumber whose span runs from s to the cursor, which
\* stands after the 'e' and the '-' if there is one; a '+' after the 'e' is not
\* consumed. With exponent digits the whole literal is one Float token.
C8_EmptyExponent ==
    /\ Called =>
           LET s == TokenStart
               d == RunEnd(s, Digits(10))
               f == RunEnd(d + 1, Digits(10))
               m == IF f + 1 < Len(text) /\ CharAt(f + 1) = Ch("-")
                    THEN f + 2 ELSE f + 1
               x == RunEnd(m, Digits(10))
           IN  (/\ d > s
                /\ d < Len(text)
                /\ CharAt(d) = Ch(".")
                /\ f > d + 1
                /\ f < Len(text)
                /\ CharAt(f) = Ch("e")) =>
                   /\ x = m =>
                          /\ last = Err(SyntaxError(InvalidNumber, Span(s, m)))
                          /\ lexer.pos = m
                   /\ x > m =>
                          /\ last = Ok(Token("Float", Span(s, x), Utf8(CharSlice(s, x))))
                          /\ lexer.pos = x
                   /\ (f + 1 < Len(text) /\ CharAt(f + 1) = Ch("+")) =>
                          /\ last = Err(SyntaxError(InvalidNumber, Span(s, f + 1)))
                          /\ lexer.pos = f + 1
    /\ (text = Str(<< "1", ".", "3", "e", "-" >>) /\ Len(items) > 0) =>
           items[1].result = Err(SyntaxError(InvalidNumber, Span(0, 5)))

\* An exponent marker followed by '+' was reported as InvalidNumber with the
\* '+' left unread.
C8_Witness ==
    /\ Called
    /\ last.tag = "Err"
    /\ last.error.kind = InvalidNumber
    /\ last.error.span.end - last.error.span.start >= 4
    /\ lexer.pos < Len(text)
    /\ CharAt(lexer.pos - 1) = Ch("e")
    /\ CharAt(lexer.pos) = Ch("+")

\* The characters a token can start with.
TokenStartChars ==
    ChRange("a", "z") \cup ChRange("A", "Z") \cup {Ch("_")} \cup ChRange("0", "9")
        \cup { Ch("+"), Ch("-"), Ch("*"), Ch("/"), Ch("%"), Ch("="), Ch("!"),
               Ch("<"), Ch(">"), Ch("."), Ch("("), Ch(")") }

\* C9: when the character at offset s after the skipped whitespace starts no
\* token, next_token consumes exactly that character and returns
\* InvalidLexicalToken with span [s, s+1) in character offsets, also when the
\* character is multi-byte; the cursor is then at s+1.
C9_InvalidCharacter ==
    Called =>
        LET s == TokenStart
        IN  (s < Len(text) /\ CharAt(s) \notin TokenStartChars) =>
                /\ last = Err(SyntaxError(InvalidLexicalToken, Span(s, s + 1)))
                /\ lexer.pos = s + 1
                /\ lexer.byte_pos = Len(Utf8(CharSlice(0, s + 1)))

\* A two-byte character behind three-byte whitespace was reported as
\* InvalidLexicalToken.
C9_Witness ==
    /\ Called
    /\ TokenStart > before.pos
    /\ TokenStart < Len(text)
    /\ CharAt(TokenStart) = EAcute
    /\ CharAt(TokenStart - 1) = EmSpace
    /\ last = Err(SyntaxError(InvalidLexicalToken, Span(TokenStart, TokenStart + 1)))

\* The radix an integer literal's text selects by its prefix, and the values
\* of the digits after the prefix, most significant first.
LiteralRadix(t) ==
    IF Len(t) >= 2 /\ t[1] = Ch("0") /\ t[2] = Ch("x") THEN 16
    ELSE IF Len(t) >= 2 /\ t[1] = Ch("0") /\ t[2] = Ch("o") THEN 8
    ELSE IF Len(t) >= 2 /\ t[1] = Ch("0") /\ t[2] = Ch("b") THEN 2
    ELSE 10

LiteralDigits(t) == IF LiteralRadix(t) = 10 THEN t ELSE SubSeq(t, 3, Len(t))

\* Whether t is a whole integer literal: an optional prefix and at least one
\* digit, all of them digits of the radix.
IsIntegerLiteral(t) ==
    LET ds == LiteralDigits(t)
        valid == Digits(LiteralRadix(t))
    IN  ds # << >> /\ \A i \in 1..Len(ds) : ds[i] \in valid

DigitValues(t) ==
    LET ds == LiteralDigits(t)
        radix == LiteralRadix(t)
    IN  [i \in 1..Len(ds) |-> to_digit(ds[i], radix)]

RECURSIVE StripZeros(_)
StripZeros(ds) ==
    IF ds # << >> /\ Head(ds) = 0 THEN StripZeros(Tail(ds)) ELSE ds

\* The digits of 2^64 - 1 in each radix: 18446744073709551615,
\* 0xffffffffffffffff, 0o1777777777777777777777 and sixty-four ones.
U64MaxDigits ==
    [radix \in {2, 8, 10, 16} |->
        IF radix = 16 THEN [i \in 1..16 |-> 15]
        ELSE IF radix = 8 THEN << 1 >> \o [i \in 1..21 |-> 7]
        ELSE IF radix = 2 THEN [i \in 1..64 |-> 1]
        ELSE << 1, 8, 4, 4, 6, 7, 4, 4, 0, 7, 3, 7, 0, 9, 5, 5, 1, 6, 1, 5 >>]

\* Whether the number with digits a is greater than the one with digits b,
\* neither having leading zeros.
DigitsGreater(a, b) ==
    \/ Len(a) > Len(b)
    \/ /\ Len(a) = Len(b)
       /\ \E i \in 1..Len(a) : a[i] > b[i] /\ \A j \in 1..(i - 1) : a[j] = b[j]

\* Whether the magnitude of the integer literal t exceeds 2^64 - 1.
ExceedsU64(t) ==
    DigitsGreater(StripZeros(DigitValues(t)), U64MaxDigits[LiteralRadix(t)])

\* A parse_expr_atom call has returned, and the token that was next when it
\* began was an Integer; PeekedToken is that token, Parsed what was returned.
ParseCalled == Len(parsed) > 0

PeekedToken == Head(pbefore.value.tokens)

Parsed == parsed[Len(parsed)]

ParsedInteger ==
    ParseCalled /\ pbefore.value.tokens # << >> /\ PeekedToken.kind = "Integer"

\* C10: a source text that is one integer literal, however large, is lexed
\* without error as one Integer token; parse_expr_atom on an Integer token
\* fails with NumberOverflow at the token's span when the literal's magnitude
\* exceeds 2^64 - 1, and never with NumberOverflow when it does not.
C10_OverflowAtParseTime ==
    /\ (Exhausted /\ IsIntegerLiteral(text)) =>
           /\ Len(items) = 1
           /\ items[1].result = Ok(Token("Integer", Span(0, Len(text)), Utf8(text)))
    /\ ParsedInteger =>
           IF ExceedsU64(PeekedToken.text)
           THEN Parsed = Err(SyntaxError(NumberOverflow, PeekedToken.span))
           ELSE ~(Parsed.tag = "Err" /\ Parsed.error.kind = NumberOverflow)
    /\ (ParseCalled /\ Parsed.tag = "Err" /\ Parsed.error.kind = NumberOverflow) =>
           ParsedInteger

\* The decimal literal 2^64 was lexed as one Integer token and parse_expr_atom
\* failed on it with NumberOverflow.
C10_Witness ==
    /\ ParsedInteger
    /\ Len(parsed) = 1
    /\ Len(text) = 20
    /\ text[20] = Ch("6")
    /\ PeekedToken = Token("Integer", Span(0, 20), Utf8(text))
    /\ Parsed = Err(SyntaxError(NumberOverflow, Span(0, 20)))

\* The last next_token call returned an Integer token.
IntegerReturned == Called /\ last.tag = "Ok" /\ last.value.kind = "Integer"

\* C11: the text of every Integer token the lexer returns is, after an
\* optional 0x/0o/0b prefix, a non-empty run of digits valid in the radix the
\* prefix selects, so that parsing it gives a value or an overflow and
\* parse_integer_literal never reaches unreachable!().
C11_IntegerTokensAreWellFormed ==
    /\ IntegerReturned =>
           LET t == last.value.text
               r == parse_u64(t)
           IN  /\ IsIntegerLiteral(t)
               /\ r.tag = "Ok" \/ r = Err("PosOverflow")
    /\ ParseCalled => Parsed # Panic
    /\ ParsedInteger =>
           \/ Parsed.tag = "Ok" /\ Parsed.value.variant = "Integer"
           \/ Parsed = Err(SyntaxError(NumberOverflow, PeekedToken.span))

\* parse_expr_atom returned an integer for a prefixed literal that does not
\* stand at the start of the text.
C11_Witness ==
    /\ ParsedInteger
    /\ PeekedToken.span.start > 0
    /\ LiteralRadix(PeekedToken.text) = 8
    /\ Parsed.tag = "Ok"
    /\ Parsed.value.variant = "Integer"

\* A parse_expr_atom call has returned that began with no token left.
ParsedAtEnd == ParseCalled /\ pbefore.value.tokens = << >>

\* The kinds a slice of TokenKind holds.
KindSet(kinds) == { kinds[i] : i \in 1..Len(kinds) }

AtomKinds == { "Identifier", "Integer", "Float" }

\* C12 as stated: parse_expr_atom called with no token left fails with
\* UnexpectedToken whose expected set is {Identifier, Integer, Float}.
C12_Original ==
    ParsedAtEnd =>
        /\ Parsed.tag = "Err"
        /\ Parsed.error.kind.name = "UnexpectedToken"
        /\ KindSet(Parsed.error.kind.expected) = AtomKinds

\* C12 (amended): parse_expr_atom called with no token left fails with
\* UnexpectedEndOfInput carrying the sentinel span whose start and end are both
\* the maximum offset, and leaves the parser as it was.
C12_EndOfInput ==
    ParsedAtEnd =>
        /\ Parsed = Err(SyntaxError([name |-> "UnexpectedEndOfInput"],
                                    [start |-> UsizeMax, end |-> UsizeMax]))
        /\ parser = pbefore

\* parse_expr_atom returned an atom for the only token and was called again.
C12_Witness ==
    /\ ParsedAtEnd
    /\ Len(parsed) = 2
    /\ parsed[1].tag = "Ok"
    /\ Parsed.tag = "Err"

\* A parse_expr_atom call has returned that began with a token next whose kind
\* is none of Identifier, Integer, Float.
ParsedNonAtom ==
    ParseCalled /\ pbefore.value.tokens # << >> /\ PeekedToken.kind \notin AtomKinds

\* C13: parse_expr_atom called when the next token's kind is none of
\* Identifier, Integer, Float fails with UnexpectedToken whose expected kinds
\* are Identifier, Integer and Float, whose got is that token's kind, and whose
\* span is the span of that token.
C13_UnexpectedToken ==
    ParsedNonAtom =>
        /\ Parsed.tag = "Err"
        /\ Parsed.error.kind.name = "UnexpectedToken"
        /\ KindSet(Parsed.error.kind.expected) = AtomKinds
        /\ Parsed.error.kind.got = PeekedToken.kind
        /\ Parsed.error.span = PeekedToken.span

\* The offending token is a two-character operator after leading whitespace.
C13_Witness ==
    /\ ParsedNonAtom
    /\ PeekedToken.kind = "LessEqual"
    /\ PeekedToken.span.start > 0
    /\ Parsed.tag = "Err"

\* v divided by the small number d: the quotient limbs and the remainder.
DivSmall(v, d) ==
    LET c4 == v[4]
        c3 == (c4 % d) * LimbBase + v[3]
        c2 == (c3 % d) * LimbBase + v[2]
        c1 == (c2 % d) * LimbBase + v[1]
    IN  [quot |-> << c1 \div d, c2 \div d, c3 \div d, c4 \div d >>, rem |-> c1 % d]

RECURSIVE ValueDigits(_, _)
\* The digits of the 64-bit value v in the radix, most significant first and
\* without leading zeros (none for zero).
ValueDigits(v, radix) ==
    IF v = << 0, 0, 0, 0 >> THEN << >>
    ELSE LET d == DivSmall(v, radix)
         IN  ValueDigits(d.quot, radix) \o << d.rem >>

\* The characters of the source text the token that was next covers.
PeekedSource == CharSlice(PeekedToken.span.start, PeekedToken.span.end)

\* The integer literals the specification gives values for.
IntegerExamples ==
    { << Str(<< "0", "x", "1", "2" >>), 18 >>,
      << Str(<< "0", "b", "1", "0", "0", "1" >>), 9 >>,
      << Str(<< "0", "o", "7", "7", "7" >>), 511 >>,
      << Str(<< "1", "2" >>), 12 >> }

\* C14: for every Integer token whose magnitude fits in 64 unsigned bits,
\* parse_expr_atom returns an IntegerLiteral whose value is the number the
\* source digits denote in the radix the lexer scanned them in (16 after 0x, 8
\* after 0o, 2 after 0b, 10 without a prefix); "0x12" is 18, "0b1001" is 9,
\* "0o777" is 511 and "12" is 12.
C14_IntegerValue ==
    ParsedInteger =>
        /\ ~ExceedsU64(PeekedSource) =>
               /\ Parsed.tag = "Ok"
               /\ Parsed.value.variant = "Integer"
               /\ ValueDigits(Parsed.value.value, LiteralRadix(PeekedSource))
                      = StripZeros(DigitValues(PeekedSource))
        /\ \A ex \in IntegerExamples :
               PeekedSource = ex[1] =>
                   Parsed.tag = "Ok" /\ Parsed.value.value = << ex[2], 0, 0, 0 >>

C14_Witness ==
    /\ ParsedInteger
    /\ text = Str(<< "0", "o", "7", "7", "7" >>)
    /\ Parsed.tag = "Ok"
    /\ Parsed.value.value = << 511, 0, 0, 0 >>

\* C15: when parse_expr_atom succeeds, the node's variant is the one of the
\* kind of the token that was next (Identifier, Integer or Float), its span is
\* that token's span, and an Identifier's text is the token's text, which is
\* the source text the span covers; the tokens of "cents" give the Identifier
\* "cents" with span [0, 5).
C15_NodeMatchesToken ==
    /\ (ParseCalled /\ Parsed.tag = "Ok") =>
           /\ pbefore.value.tokens # << >>
           /\ PeekedToken.kind \in AtomKinds
           /\ Parsed.value.variant = PeekedToken.kind
           /\ Parsed.value.span = PeekedToken.span
           /\ Parsed.value.variant = "Identifier" =>
                  /\ Parsed.value.text = PeekedToken.text
                  /\ Parsed.value.text = PeekedSource
    /\ (ParseCalled /\ Len(parsed) = 1
            /\ text = Str(<< "c", "e", "n", "t", "s" >>)) =>
           Parsed = [tag |-> "Ok",
                     value |-> [variant |-> "Identifier",
                                text |-> Str(<< "c", "e", "n", "t", "s" >>),
                                span |-> [start |-> 0, end |-> 5]]]

C15_Witness ==
    /\ ParseCalled
    /\ Len(parsed) = 1
    /\ text = Str(<< "c", "e", "n", "t", "s" >>)
    /\ Parsed.tag = "Ok"
    /\ Parsed.value.variant = "Identifier"

\* The kinds the test all_tokens expects, in order.
AllTokensKinds ==
    << "Identifier", "Integer", "Integer", "Integer", "Integer", "Float",
       "Float", "Float", "Plus", "Minus", "Asterisk", "Slash", "Percent",
       "Assign", "Bang", "LessThan", "GreaterThan", "Equal", "Unequal",
       "LessEqual", "GreaterEqual", "Dot", "LParen", "RParen" >>

\* The span starts the test all_tokens expects, in order.
AllTokensStarts ==
    << 0, 6, 9, 16, 23, 29, 35, 43, 51, 53, 55, 57, 59, 61, 63, 65, 67, 69, 72,
       75, 78, 81, 83, 85 >>

RECURSIVE LexemeStart(_)
\* The character offset of the i-th lexeme in the lexemes joined by single
\* spaces.
LexemeStart(i) ==
    IF i = 1 THEN 0
    ELSE LexemeStart(i - 1) + Len(AllTokensLexemes[i - 1]) + 1

\* The token of the i-th lexeme: its kind, the offsets of the lexeme and the
\* lexeme.
LexemeToken(i) ==
    [kind |-> AllTokensKinds[i],
     span |-> [start |-> LexemeStart(i),
               end |-> LexemeStart(i) + Len(AllTokensLexemes[i])],
     text |-> AllTokensLexemes[i]]

\* C16: lexing the text made of one lexeme for every TokenKind, separated by
\* single spaces, yields with no error exactly that ordered sequence of kinds,
\* each token's span being the character offsets of its lexeme and its text
\* the lexeme; next_token returns these tokens one by one and then nothing,
\* and collect_tokens returns them all.
C16_AllTokens ==
    text = AllTokensText =>
        /\ { AllTokensKinds[i] : i \in 1..Len(AllTokensKinds) } = TokenKind
        /\ Len(AllTokensKinds) = Len(AllTokensLexemes)
        /\ \A i \in 1..Len(AllTokensStarts) : LexemeStart(i) = AllTokensStarts[i]
        /\ Len(items) <= Len(AllTokensLexemes)
        /\ \A i \in 1..Len(items) :
               items[i].result = [tag |-> "Ok", value |-> LexemeToken(i)]
        /\ Exhausted => Len(items) = Len(AllTokensLexemes)
        /\ collected # NotCalled =>
               collected.result =
                   [tag |-> "Ok",
                    value |-> [i \in 1..Len(AllTokensLexemes) |-> LexemeToken(i)]]

C16_Witness ==
    /\ text = AllTokensText
    /\ Len(text) = 86
    /\ Exhausted
    /\ Len(items) = 24
    /\ collected # NotCalled
    /\ collected.result.tag = "Ok"
    /\ Len(collected.result.value) = 24

DecimalDigits == Ch("0") .. Ch("9")

RECURSIVE DigitRunEnd(_, _)
\* The first index from i on of the string t that holds no decimal digit
\* (Len(t) + 1 if there is none).
DigitRunEnd(t, i) ==
    IF i <= Len(t) /\ t[i] \in DecimalDigits THEN DigitRunEnd(t, i + 1) ELSE i

\* Whether t is digits '.' digits, optionally followed by 'e', an optional
\* single '-' and digits, every digit run non-empty.
IsFloatShape(t) ==
    LET n == Len(t)
        dot == DigitRunEnd(t, 1)
        frac_end == DigitRunEnd(t, dot + 1)
        exp_start == IF frac_end + 1 <= n /\ t[frac_end + 1] = Ch("-")
                     THEN frac_end + 2 ELSE frac_end + 1
    IN  /\ dot > 1
        /\ dot <= n
        /\ t[dot] = Ch(".")
        /\ frac_end > dot + 1
        /\ \/ frac_end = n + 1
           \/ /\ t[frac_end] = Ch("e")
              /\ exp_start <= n
              /\ DigitRunEnd(t, exp_start) = n + 1

\* Whether a radix prefix starts at offset s of the source text.
RadixPrefixAt(s) ==
    /\ s + 1 < Len(text)
    /\ CharAt(s) = Ch("0")
    /\ CharAt(s + 1) \in { Ch("x"), Ch("b"), Ch("o") }

\* C18: every Float token the lexer returns has text of the shape digits '.'
\* digits, optionally followed by 'e', an optional single '-' and digits, with
\* every digit run non-empty; every Integer token's text contains no '.'; a
\* decimal digit run directly followed by 'e' is returned as an Integer token
\* ending before the 'e', so that "1e5" is the Integer "1" followed by the
\* Identifier "e5".
C18_FloatShape ==
    /\ (Called /\ last.tag = "Ok" /\ last.value.kind = "Float") =>
           IsFloatShape(last.value.text)
    /\ (Called /\ last.tag = "Ok" /\ last.value.kind = "Integer") =>
           \A i \in 1..Len(last.value.text) : last.value.text[i] # Ch(".")
    /\ Called =>
           LET s == TokenStart
               e == RunEnd(s, DecimalDigits)
           IN  (s < e /\ ~RadixPrefixAt(s) /\ e < Len(text) /\ CharAt(e) = Ch("e")) =>
                   /\ last = [tag |-> "Ok",
                              value |-> [kind |-> "Integer",
                                         span |-> [start |-> s, end |-> e],
                                         text |-> CharSlice(s, e)]]
                   /\ lexer.pos = e
    /\ (Exhausted /\ text = Str(<< "1", "e", "5" >>)) =>
           /\ Len(items) = 2
           /\ items[1].result =
                  [tag |-> "Ok",
                   value |-> [kind |-> "Integer", span |-> [start |-> 0, end |-> 1],
                              text |-> Str(<< "1" >>)]]
           /\ items[2].result =
                  [tag |-> "Ok",
                   value |-> [kind |-> "Identifier",
                              span |-> [start |-> 1, end |-> 3],
                              text |-> Str(<< "e", "5" >>)]]

\* A Float token with a negative exponent was returned, after an Integer token
\* that ended before an e.

C18_Witness ==
    /\ Called
    /\ last.tag = "Ok"
    /\ last.value.kind = "Float"
    /\ \E i \in 1..Len(last.value.text) : last.value.text[i] = Ch("-")
    /\ Len(items) > 1
    /\ items[1].result.tag = "Ok"
    /\ items[1].result.value.kind = "Integer"
    /\ CharAt(items[1].result.value.span.end) = Ch("e")

\* The characters an identifier starts with, and those it goes on with.
IdentifierStart == (Ch("a") .. Ch("z")) \cup (Ch("A") .. Ch("Z")) \cup { Ch("_") }

IdentifierPart == IdentifierStart \cup DecimalDigits

\* C19: when the next character, at offset s after the skipped whitespace, is
\* an ASCII letter or '_', next_token returns an Identifier token whose text is
\* the longest run of ASCII letters, decimal digits and '_' starting at s, so
\* the character right after the token (if any) is none of these; no
\* Identifier token starts with a digit, and "1abc" is the Integer "1" followed
\* by the Identifier "abc".
C19_IdentifierIsMaximal ==
    /\ Called =>
           LET s == TokenStart
               e == RunEnd(s, IdentifierPart)
           IN  (s < Len(text) /\ CharAt(s) \in IdentifierStart) =>
                   /\ last = [tag |-> "Ok",
                              value |-> [kind |-> "Identifier",
                                         span |-> [start |-> s, end |-> e],
                                         text |-> CharSlice(s, e)]]
                   /\ lexer.pos = e
                   /\ e < Len(text) => CharAt(e) \notin IdentifierPart
    /\ (Called /\ last.tag = "Ok" /\ last.value.kind = "Identifier") =>
           /\ last.value.text # << >>
           /\ last.value.text[1] \in IdentifierStart
           /\ CharAt(last.value.span.start) \notin DecimalDigits
    /\ (Exhausted /\ text = Str(<< "1", "a", "b", "c" >>)) =>
           /\ Len(items) = 2
           /\ items[1].result =
                  [tag |-> "Ok",
                   value |-> [kind |-> "Integer", span |-> [start |-> 0, end |-> 1],
                              text |-> Str(<< "1" >>)]]
           /\ items[2].result =
                  [tag |-> "Ok",
                   value |-> [kind |-> "Identifier",
                              span |-> [start |-> 1, end |-> 4],
                              text |-> Str(<< "a", "b", "c" >>)]]

\* An identifier that starts with '_', holds a digit and is followed by
\* another character was returned.
C19_Witness ==
    /\ Called
    /\ last.tag = "Ok"
    /\ last.value.kind = "Identifier"
    /\ CharAt(last.value.span.start) = Ch("_")
    /\ \E i \in 1..Len(last.value.text) : last.value.text[i] \in DecimalDigits
    /\ last.value.span.end < Len(text)

\* An expect call has returned; ExpectedToken is the token that was next when
\* it began.
ExpectCalled == expected # NotCalled

ExpectedToken == Head(expected.before.tokens)

\* C20: expect(K) returns the next token and advances the parser by exactly
\* one token when that token's kind is in K; fails with UnexpectedToken whose
\* expected is K and whose got is that kind, spanned at the offending token,
\* when the kind is not in K; and fails with UnexpectedEndOfInput carrying the
\* sentinel span, whose start and end are both the maximum offset, when no
\* token is left.
C20_Expect ==
    ExpectCalled =>
        LET K == expected.kinds
            r == expected.result
        IN  IF expected.before.tokens = << >>
            THEN /\ r.tag = "Err"
                 /\ r.error.kind = [name |-> "UnexpectedEndOfInput"]
                 /\ r.error.span = [start |-> UsizeMax, end |-> UsizeMax]
            ELSE IF ExpectedToken.kind \in KindSet(K)
            THEN /\ r = [tag |-> "Ok", value |-> ExpectedToken]
                 /\ parser.value.tokens = Tail(expected.before.tokens)
            ELSE /\ r.tag = "Err"
                 /\ r.error.kind = [name |-> "UnexpectedToken", expected |-> K,
                                    got |-> ExpectedToken.kind]
                 /\ r.error.span = ExpectedToken.span

\* expect was called with two kinds on a token of another kind that is not
\* the first of the text, after a call that returned a token.
C20_Witness ==
    /\ ExpectCalled
    /\ expected.before.tokens # << >>
    /\ Len(expected.kinds) = 2
    /\ ExpectedToken.kind \notin KindSet(expected.kinds)
    /\ ExpectedToken.span.start > 0
    /\ expected.result.tag = "Err"
    /\ Len(expected.before.tokens) < Len(collected.result.value)

RECURSIVE BigAddLimbs(_, _, _)
\* The limbs of a + b + carry.
BigAddLimbs(a, b, carry) ==
    IF a = << >> /\ b = << >> THEN (IF carry = 0 THEN << >> ELSE << carry >>)
    ELSE LET t == (IF a = << >> THEN 0 ELSE Head(a))
                      + (IF b = << >> THEN 0 ELSE Head(b)) + carry
         IN  << t % LimbBase >>
                 \o BigAddLimbs(IF a = << >> THEN a ELSE Tail(a),
                                IF b = << >> THEN b ELSE Tail(b), t \div LimbBase)

BigAdd(a, b) == BigAddLimbs(a, b, 0)

RECURSIVE BigMul(_, _)
\* k * a, limb by limb of k from the top, each limb as its two bytes.
BigMul(k, a) ==
    IF k = << >> \/ a = << >> THEN << >>
    ELSE BigAdd(BigMulPow2(BigMul(Tail(k), a), 16),
                BigAdd(BigMulPow2(BigMulAdd(a, Head(k) \div 256, 0), 8),
                       BigMulAdd(a, Head(k) % 256, 0)))

RECURSIVE SmallValue(_)
\* The value of a short run of decimal digits.
SmallValue(ds) ==
    IF ds = << >> THEN 0
    ELSE SmallValue(SubSeq(ds, 1, Len(ds) - 1)) * 10 + (ds[Len(ds)] - Ch("0"))

\* The float literal t, of the shape IsFloatShape tells, as a fraction: its
\* digits without the dot, scaled by ten to the exponent less the number of
\* fraction digits, are FloatNum(t) / FloatDen(t).
FloatScale(t) ==
    LET dot == DigitRunEnd(t, 1)
        frac_end == DigitRunEnd(t, dot + 1)
        negative == frac_end < Len(t) /\ t[frac_end + 1] = Ch("-")
        e == SmallValue(SubSeq(t, IF negative THEN frac_end + 2 ELSE frac_end + 1,
                               Len(t)))
    IN  (IF negative THEN 0 - e ELSE e) - (frac_end - dot - 1)

FloatDigits(t) ==
    LET dot == DigitRunEnd(t, 1)
    IN  SubSeq(t, 1, dot - 1) \o SubSeq(t, dot + 1, DigitRunEnd(t, dot + 1) - 1)

FloatNum(t) ==
    BigMulPow10(BigFromDigits(FloatDigits(t)),
                IF FloatScale(t) > 0 THEN FloatScale(t) ELSE 0)

FloatDen(t) == BigMulPow10(<< 1 >>, IF FloatScale(t) < 0 THEN 0 - FloatScale(t) ELSE 0)

\* -1, 0 or 1 as k * 2^s * den is less than, equal to or greater than num.
CmpScaled(k, s, num, den) ==
    BigCmp(BigMulPow2(BigMul(k, den), IF s > 0 THEN s ELSE 0),
           BigMulPow2(num, IF s < 0 THEN 0 - s ELSE 0))

\* Whether the 64 bits are the IEEE-754 binary64 pattern of the finite,
\* non-negative double nearest num / den, ties going to the even significand:
\* with the significand m and the exponent p the bits hold (the double is
\* m * 2^p), num / den lies between the midpoints to the neighbouring doubles,
\* and on a midpoint only if m is even.
IsNearestF64(bits, num, den) ==
    LET exponent == (bits[4] % 32768) \div 16
        fraction == << bits[1], bits[2], bits[3], bits[4] % 16 >>
        m == IF exponent = 0 THEN BigTrim(fraction)
             ELSE << bits[1], bits[2], bits[3], (bits[4] % 16) + 16 >>
        p == IF exponent = 0 THEN 0 - 1074 ELSE exponent - 1075
        even == bits[1] % 2 = 0
        \* Below a power of two the doubles are twice as dense.
        dense == exponent > 1 /\ BigTrim(fraction) = << >>
        above == CmpScaled(BigMulAdd(m, 2, 1), p - 1, num, den)
        below == IF dense
                 THEN CmpScaled(BigSub(BigMulAdd(m, 4, 0), << 1 >>), p - 2, num, den)
                 ELSE CmpScaled(BigSub(BigMulAdd(m, 2, 0), << 1 >>), p - 1, num, den)
    IN  /\ bits[4] < 32768
        /\ exponent < 2047
        /\ above > 0 \/ (above = 0 /\ even)
        /\ m = << >> \/ below < 0 \/ (below = 0 /\ even)

\* The float literals of the tests with the bits of the doubles they denote:
\* 0x3FF00C49BA5E353F, 0x4271E61B68C00000, 0x3F5B5C7CD898B2EA and
\* 0x3F201F31F46ED246, least significant 16 bits first.
FloatExamples ==
    { << Str(<< "1", ".", "0", "0", "3" >>), << 13631, 47710, 3145, 16368 >> >>,
      << Str(<< "1", ".", "2", "3", "e", "1", "2" >>), << 0, 26816, 58907, 17009 >> >>,
      << Str(<< "1", ".", "6", "7", "e", "-", "3" >>), << 45802, 55448, 23676, 16219 >> >>,
      << Str(<< "1", "2", ".", "3", "e", "-", "5" >>), << 53830, 62574, 7985, 16160 >> >> }

\* A parse_expr_atom call has returned that began with a Float token next.
ParsedFloat ==
    ParseCalled /\ pbefore.value.tokens # << >> /\ PeekedToken.kind = "Float"

\* C17: for a Float token, parse_expr_atom returns a FloatLiteral whose
\* value_bits is the IEEE-754 binary64 bit pattern of the double nearest the
\* decimal number the token's source text denotes; "1.003", "1.23e12",
\* "1.67e-3" and "12.3e-5" give the bit patterns of those literals as doubles.
C17_FloatBits ==
    ParsedFloat =>
        /\ Parsed.tag = "Ok"
        /\ Parsed.value.variant = "Float"
        /\ IsNearestF64(Parsed.value.value_bits, FloatNum(PeekedSource),
                        FloatDen(PeekedSource))
        /\ \A ex \in FloatExamples :
               PeekedSource = ex[1] => Parsed.value.value_bits = ex[2]

C17_Witness ==
    /\ ParsedFloat
    /\ text = Str(<< "1", ".", "6", "7", "e", "-", "3" >>)
    /\ Parsed.tag = "Ok"
    /\ Parsed.value.value_bits = << 45802, 55448, 23676, 16219 >>

\* The span of an item next_token returned, a token's or an error's.
ItemSpan(item) ==
    IF item.result.tag = "Ok" THEN item.result.value.span
    ELSE item.result.error.span

\* C21: across the next_token calls on one lexer, every returned token and
\* every returned error has a span with start < end <= the number of
\* characters of the source, and the spans of successive items never overlap
\* and strictly increase: the end of each is <= the start of the next.
C21_SpansMoveForward ==
    /\ \A i \in 1..Len(items) :
           /\ ItemSpan(items[i]).start < ItemSpan(items[i]).end
           /\ ItemSpan(items[i]).end <= Len(text)
    /\ \A i \in 1..(Len(items) - 1) :
           /\ ItemSpan(items[i]).end <= ItemSpan(items[i + 1]).start
           /\ ItemSpan(items[i]).start < ItemSpan(items[i + 1]).start

\* An error on a two-byte character, whitespace, then a token: the byte
\* offset has left the character offset behind, and the second span starts
\* beyond the end of the first.
C21_Witness ==
    /\ Len(items) = 2
    /\ items[1].result.tag = "Err"
    /\ items[2].result.tag = "Ok"
    /\ lexer.byte_pos > lexer.pos
    /\ ItemSpan(items[1]).end < ItemSpan(items[2]).start
    /\ ItemSpan(items[2]).end = Len(text)

\* The tokens of the Parser before and after the last parse_expr_atom call.
TokensBefore == pbefore.value.tokens

TokensAfter == parser.value.tokens

\* The name of the error the last parse_expr_atom call failed with.
ParsedErrorName == Parsed.error.kind.name

ConsumedOne == TokensBefore # << >> /\ TokensAfter = Tail(TokensBefore)

ConsumedNone == TokensAfter = TokensBefore

\* C22: parse_expr_atom consumes exactly one token when it succeeds or fails
\* with NumberOverflow or InvalidNumber, and consumes no token when it fails
\* with UnexpectedToken or at end of input; so a failed call on a non-atom
\* token leaves the token sequence unchanged and a repeated call returns the
\* same error, while a call that fails with NumberOverflow has advanced past
\* the overflowing literal.
C22_Consumption ==
    ParseCalled =>
        /\ Parsed.tag \in {"Ok", "Err"}
        /\ Parsed.tag = "Ok" => ConsumedOne
        /\ Parsed.tag = "Err" =>
               /\ ParsedErrorName \in {"NumberOverflow", "InvalidNumber"} =>
                      ConsumedOne
               /\ ParsedErrorName \in {"UnexpectedToken", "UnexpectedEndOfInput"} =>
                      ConsumedNone
               /\ ParsedErrorName = "NumberOverflow" =>
                      /\ Head(TokensBefore).kind = "Integer"
                      /\ Parsed.error.span = Head(TokensBefore).span
                      /\ \A i \in 1..Len(TokensAfter) :
                             TokensAfter[i].span.start > Parsed.error.span.end
        /\ TokensBefore = << >> => ConsumedNone
        /\ (TokensBefore # << >> /\ Head(TokensBefore).kind \notin AtomKinds) =>
               /\ Parsed.tag = "Err"
               /\ ConsumedNone
               /\ parse_expr_atom(parser.value).result = Parsed
        /\ (Len(parsed) > 1 /\ parsed[Len(parsed) - 1].tag = "Err"
                /\ parsed[Len(parsed) - 1].error.kind.name = "UnexpectedToken") =>
               Parsed = parsed[Len(parsed) - 1]

\* A call that failed with NumberOverflow and moved on, then a call that
\* failed on the '+' behind the literal and left it in place.
C22_Witness ==
    /\ Len(parsed) = 2
    /\ parsed[1].tag = "Err"
    /\ parsed[1].error.kind.name = "NumberOverflow"
    /\ parsed[2].tag = "Err"
    /\ parsed[2].error.kind.name = "UnexpectedToken"
    /\ Len(TokensBefore) = 1
    /\ TokensAfter = TokensBefore
    /\ Head(TokensAfter).kind = "Plus"

====
